---- MODULE Spec2Model ----
(***************************************************************************)
(* Chat transcript front end (www/main.js): transcript assembly from the   *)
(* history fetch and from the live event stream of each turn.              *)
(*                                                                         *)
(* Strings are sequences of tokens (a token is one character or one fixed  *)
(* literal of the source).  marked.parse is an external renderer: its      *)
(* output is kept as an opaque block that records the text it was given.   *)
(***************************************************************************)
EXTENDS Naturals, Sequences, FiniteSets, TLC

\* ------------------------------------------------------------------ bounds
MaxTurns == 2
MaxChunks == 2
MaxFeed == 3
MaxHist == 3

\* ------------------------------------------------------------- JS values
Undef == <<"undefined">>

Last(s) == s[Len(s)]

RECURSIVE join(_)
join(ss) == IF ss = <<>> THEN <<>> ELSE Head(ss) \o join(Tail(ss))

\* String.prototype.replace(/c/g, r)
RECURSIVE replaceAll(_, _, _)
replaceAll(s, c, r) ==
    IF s = <<>> THEN <<>>
    ELSE (IF Head(s) = c THEN r ELSE <<Head(s)>>) \o replaceAll(Tail(s), c, r)

htmlEncode(input) ==
    replaceAll(replaceAll(replaceAll(input, "&", <<"&", "a", "m", "p", ";">>),
                          "<", <<"&", "l", "t", ";">>),
               ">", <<"&", "g", "t", ";">>)

\* String.prototype.trim
RECURSIVE trimStart(_)
trimStart(s) == IF s # <<>> /\ Head(s) = " " THEN trimStart(Tail(s)) ELSE s

RECURSIVE trimEnd(_)
trimEnd(s) ==
    IF s # <<>> /\ Last(s) = " " THEN trimEnd(SubSeq(s, 1, Len(s) - 1)) ELSE s

\* the value is taken as typed
trim_none(s) == s

trim(s) == trimEnd(trimStart(s))

\* ------------------------------------------------------------------ Parts
\* A Part as it comes out of JSON.parse.  A field the JSON object does not
\* carry reads as undefined (Undef).
TextPart(t) ==
    [type |-> "text", text |-> t, name |-> Undef, args |-> Undef, response |-> Undef]

CallPart(n, a) ==
    [type |-> "function_call", text |-> Undef, name |-> n, args |-> a, response |-> Undef]

ResponsePart(n, r) ==
    [type |-> "function_response", text |-> Undef, name |-> n, args |-> Undef, response |-> r]

\* any other tag; it may carry a text field of its own
OtherPart(t) ==
    [type |-> "note", text |-> t, name |-> Undef, args |-> Undef, response |-> Undef]

Message(r, ps) == [role |-> r, parts |-> ps]

\* JS truthiness of a string-valued field
Truthy(v) == v # Undef /\ v # <<>>

\* JSON.stringify(value, null, 2): undefined for undefined, else the
\* serialised object (a structured value is the sequence of its tokens)
JSONstringify(v) == IF v = Undef THEN Undef ELSE <<"{">> \o v \o <<"}">>

\* JSON.stringify(part, null, 2) of a whole Part object: its own fields
JSONstringifyPart(part) ==
    <<"{", part.type>>
    \o (IF part.text # Undef THEN <<",">> \o part.text ELSE <<>>)
    \o (IF part.name # Undef THEN <<",">> \o part.name ELSE <<>>)
    \o (IF part.args # Undef THEN <<",">> \o JSONstringify(part.args) ELSE <<>>)
    \o (IF part.response # Undef THEN <<",">> \o JSONstringify(part.response) ELSE <<>>)
    \o <<"}">>

\* --------------------------------------------------------------- Renderer
\* marked.parse(text): the external markdown renderer, one call on `text`
marked_parse(text) == [kind |-> "md", summary |-> <<>>, body |-> text]

Accordion(summary, body) == [kind |-> "accordion", summary |-> summary, body |-> body]

Pre(body) == [kind |-> "pre", summary |-> <<>>, body |-> body]

getTextFromParts(parts) ==
    LET keep(p) == p.type = "text" /\ Truthy(p.text)
        kept == SelectSeq(parts, keep)
    IN  join([i \in 1..Len(kept) |-> kept[i].text])

\* htmlEncode(undefined) calls .replace on undefined: a TypeError
renderPartThrows(part) ==
    \/ part.type = "function_call" /\ JSONstringify(part.args) = Undef
    \/ part.type = "function_response" /\ JSONstringify(part.response) = Undef

renderPart(part) ==
    CASE part.type = "text" ->
           marked_parse(IF Truthy(part.text) THEN part.text ELSE <<>>)
      [] part.type = "function_call" ->
           Accordion(<<"Function Call: ">> \o part.name,
                     htmlEncode(JSONstringify(part.args)))
      [] part.type = "function_response" ->
           Accordion(<<"Function Response: ">> \o part.name,
                     htmlEncode(JSONstringify(part.response)))
      [] OTHER -> Pre(htmlEncode(JSONstringifyPart(part)))

IsText(p) == p.type = "text"

IsNonText(p) == p.type # "text"

\* A content div: dataset.rawText and innerHTML (a sequence of blocks).
\* The result carries `threw`: the call ended in an exception, after the
\* writes made before the throwing statement.
renderMessageContent(contentDiv, message) ==
    LET textParts  == SelectSeq(message.parts, IsText)
        otherParts == SelectSeq(message.parts, IsNonText)
        rawText    == getTextFromParts(textParts)
        throws     == \E i \in 1..Len(otherParts) : renderPartThrows(otherParts[i])
        html       == (IF rawText # <<>> THEN <<marked_parse(rawText)>> ELSE <<>>)
                      \o [i \in 1..Len(otherParts) |-> renderPart(otherParts[i])]
    IN  [rawText |-> rawText,
         html    |-> IF throws THEN contentDiv.html ELSE html,
         threw   |-> throws]

NewDiv == [rawText |-> <<>>, html |-> <<>>]

\* chatLog: the sequence of message elements [role, rawText, html]
appendMessage(log, message) ==
    LET c == renderMessageContent(NewDiv, message)
    IN  IF c.threw
        THEN [log |-> log, threw |-> TRUE]
        ELSE [log |-> Append(log, [role |-> message.role, rawText |-> c.rawText,
                                   html |-> c.html]),
              threw |-> FALSE]

\* every Message starts a new element
Extends_never(log, message) == FALSE

\* every Message that is not the user's extends the last element
Extends_anyLast(log, message) == log # <<>> /\ message.role # "user"

\* same-role Messages merge, user included
Extends_anyRole(log, message) == log # <<>> /\ Last(log).role = message.role

\* the branch condition of addOrUpdateMessage
Extends(log, message) ==
    log # <<>> /\ Last(log).role = message.role /\ message.role # "user"

Placeholder ==
    [type |-> "non-text-placeholder", text |-> Undef, name |-> Undef,
     args |-> Undef, response |-> Undef]

\* contentDiv.querySelectorAll('.accordion') among the rendered Part blocks
accordions(html) == SelectSeq(html, LAMBDA b : b.kind = "accordion")

\* the new chunk overwrites the accumulated text
concatRawText_overwrite(oldRawText, newTextChunk) == newTextChunk

\* const fullRawText = oldRawText + newTextChunk
concatRawText(oldRawText, newTextChunk) == oldRawText \o newTextChunk

addOrUpdateMessage(log, message) ==
    IF Extends(log, message)
    THEN LET last          == Last(log)
             oldRawText    == last.rawText
             newTextChunk  == getTextFromParts(message.parts)
             fullRawText   == concatRawText(oldRawText, newTextChunk)
             existingNonTextParts ==
                 [i \in 1..Len(accordions(last.html)) |-> Placeholder]
             updatedMessage ==
                 [parts |-> existingNonTextParts
                            \o SelectSeq(message.parts, IsNonText)
                            \o <<TextPart(fullRawText)>>]
             c == renderMessageContent([rawText |-> fullRawText, html |-> last.html],
                                       updatedMessage)
         IN  [log |-> [log EXCEPT ![Len(log)] =
                          [role |-> last.role,
                           rawText |-> c.rawText,
                           html |-> c.html]],
              threw |-> c.threw]
    ELSE appendMessage(log, message)

\* ----------------------------------------------------------- History Merge
\* JSON.parse(JSON.stringify(message)): a fresh object with the same fields
deepCopy(message) ==
    [role |-> message.role,
     parts |-> [i \in 1..Len(message.parts) |->
                  [f \in DOMAIN message.parts[i] |-> message.parts[i][f]]]]

\* a reducer that merges on equal roles, user included
sameTurn_anyRole(lastMessage, currentMessage) ==
    lastMessage.role = currentMessage.role

\* the merge condition of the reducer, for an existing lastMessage
sameTurn(lastMessage, currentMessage) ==
    lastMessage.role = currentMessage.role /\ currentMessage.role # "user"

\* history.reduce(...): the accumulator after folding the first n Messages
RECURSIVE reduceHistory(_, _)
reduceHistory(history, n) ==
    IF n = 0 THEN <<>>
    ELSE LET accumulator    == reduceHistory(history, n - 1)
             currentMessage == history[n]
         IN  IF accumulator # <<>> /\ sameTurn(Last(accumulator), currentMessage)
             THEN [accumulator EXCEPT ![Len(accumulator)].parts =
                       @ \o currentMessage.parts]
             ELSE Append(accumulator, deepCopy(currentMessage))

mergedHistory(history) == reduceHistory(history, Len(history))

\* accumulator.push(currentMessage): the accumulator holds the caller's
\* own object, parts array included
pushed_itself(currentMessage, n) ==
    [role |-> currentMessage.role, parts |-> currentMessage.parts, shares |-> n]

\* accumulator.push(JSON.parse(JSON.stringify(currentMessage))): `shares`
\* is the index of the input Message whose parts array the pushed object
\* holds, 0 when the array is its own
pushed(currentMessage, n) ==
    [role |-> deepCopy(currentMessage).role,
     parts |-> deepCopy(currentMessage).parts,
     shares |-> 0]

\* the same reduce, run on the heap: the accumulator and the caller's list
\* after the first n Messages.  lastMessage.parts.push(...) writes to the
\* array lastMessage holds, and so to an input Message sharing that array.
RECURSIVE reduceOnHeap(_, _)
reduceOnHeap(history, n) ==
    IF n = 0 THEN [accumulator |-> <<>>, history |-> history]
    ELSE LET before         == reduceOnHeap(history, n - 1)
             accumulator    == before.accumulator
             currentMessage == before.history[n]
             lastMessage    == Last(accumulator)
         IN  IF accumulator # <<>> /\ sameTurn(lastMessage, currentMessage)
             THEN [accumulator |->
                       [accumulator EXCEPT ![Len(accumulator)].parts =
                            @ \o currentMessage.parts],
                   history |->
                       IF lastMessage.shares = 0 THEN before.history
                       ELSE [before.history EXCEPT ![lastMessage.shares].parts =
                                @ \o currentMessage.parts]]
             ELSE [accumulator |-> Append(accumulator, pushed(currentMessage, n)),
                   history |-> before.history]

\* the caller's list once loadHistory is done with it
historyAfterReduce(body) ==
    IF body.kind = "array"
    THEN [body EXCEPT !.messages = reduceOnHeap(@, Len(@)).history]
    ELSE body

\* mergedHistory.forEach(appendMessage): stops at the first exception
RECURSIVE forEachAppend(_, _)
forEachAppend(log, messages) ==
    IF messages = <<>> THEN [log |-> log, threw |-> FALSE]
    ELSE LET r == appendMessage(log, Head(messages))
         IN  IF r.threw THEN r ELSE forEachAppend(r.log, Tail(messages))

\* error.message is whatever the failed step reports
historyErrorMessage ==
    Message("system", <<TextPart(<<"Error loading history: ", "error.message">>)>>)

\* the failure is reported in the model's voice
connectionErrorMessage_asModel ==
    Message("model", <<TextPart(<<"Connection error. Please try again.">>)>>)

connectionErrorMessage ==
    Message("system", <<TextPart(<<"Connection error. Please try again.">>)>>)

\* the try block of loadHistory from `chatLog.innerHTML = ''` on, with its catch
renderHistory(log, body) ==
    IF body.kind # "array"
    THEN appendMessage(<<>>, historyErrorMessage).log
    ELSE LET r == forEachAppend(<<>>, mergedHistory(body.messages))
         IN  IF r.threw
             THEN appendMessage(r.log, historyErrorMessage).log
             ELSE r.log

\* ------------------------------------------------------------------ inputs
\* what the user can type into chatInput
InputTexts == {<<" ">>, <<" ", "h", "i", " ">>}

ModelText   == Message("model", <<TextPart(<<"a">>)>>)
ModelCall   == Message("model", <<CallPart(<<"calc">>, <<"x">>)>>)
ModelNoArgs == Message("model", <<TextPart(<<"b">>), CallPart(<<"calc">>, Undef)>>)
SystemText  == Message("system", <<TextPart(<<"s">>)>>)
UserText    == Message("user", <<TextPart(<<"u">>)>>)

\* the data field of a message event of the stream
ChunkData ==
    {[kind |-> k, message |-> Message("none", <<>>)] :
        k \in {"empty", "invalid_json", "not_message"}}
    \cup {[kind |-> "message", message |-> m] :
        m \in {ModelText, ModelCall, ModelNoArgs, UserText}}

\* the body of the history response, once response.json() has resolved
Histories ==
    {[kind |-> "array", messages |-> h] : h \in
        { <<>>,
          <<UserText, Message("model", <<CallPart(<<"calc">>, <<"x">>), OtherPart(<<"n">>)>>),
            ModelText>>,
          <<SystemText, ModelNoArgs>> }}

\* ------------------------------------------------------------------- state
VARIABLES
    chatLog,        \* the message elements of #chat-log
    inputValue,     \* chatInput.value
    inputDisabled,  \* chatInput.disabled
    buttonDisabled, \* sendButton.disabled
    streams,        \* the SSE objects made so far: [readyState, payload]
    hPc,            \* loadHistory: "fetch", "json" or "done"
    history,        \* loadHistory: the body response.json() resolved to
    nChunks,        \* message events delivered so far
    folded,         \* per element: the Parts folded into it, and how it was made
    lastEvent       \* the handler that ran last, and its outcome

vars == <<chatLog, inputValue, inputDisabled, buttonDisabled, streams, hPc,
          history, nChunks, folded, lastEvent>>

NoBody == [kind |-> "none", messages |-> <<>>]

Event(op, arg) == [op |-> op, arg |-> arg]

Init ==
    /\ chatLog = <<>>
    /\ inputValue = <<>>
    /\ inputDisabled = FALSE
    /\ buttonDisabled = FALSE
    /\ streams = <<>>
    /\ hPc = "fetch"
    /\ history = NoBody
    /\ nChunks = 0
    /\ folded = <<>>
    /\ lastEvent = Event("DOMContentLoaded", "")

\* what the bookkeeping of folded Parts becomes when addOrUpdateMessage runs
foldedAfterMerge(f, log, message, threw) ==
    IF Extends(log, message)
    THEN [f EXCEPT ![Len(f)].parts =
              @ \o (IF threw THEN SelectSeq(message.parts, IsText) ELSE message.parts)]
    ELSE IF threw THEN f
         ELSE Append(f, [parts |-> message.parts, via |-> "merge"])

foldedAfterAppend(f, message, threw) ==
    IF threw THEN f ELSE Append(f, [parts |-> message.parts, via |-> "error"])

\* ------------------------------------------------------------ user typing
\* a disabled control takes no input from the user
Type(v) ==
    /\ ~inputDisabled
    /\ v # inputValue
    /\ inputValue' = v
    /\ UNCHANGED <<chatLog, inputDisabled, buttonDisabled, streams, hPc, history,
                   nChunks, folded, lastEvent>>

\* --------------------------------------------------------- Turn Controller
userMessageOf(inputText) == Message("user", <<TextPart(inputText)>>)

\* new SSE(...) followed by sse.stream()
newStream(payload) == [readyState |-> "CONNECTING", payload |-> payload]

\* the field is not cleared
valueAfterSubmit_kept(v) == v

\* chatInput.value after an accepted submit
valueAfterSubmit(v) == <<>>

handleFormSubmit ==
    LET inputText == trim(inputValue)
    IN  IF inputText = <<>>
        THEN /\ lastEvent' = Event("submit", "empty")
             /\ UNCHANGED <<chatLog, inputValue, inputDisabled, buttonDisabled,
                            streams, hPc, history, nChunks, folded>>
        ELSE LET userMessage == userMessageOf(inputText)
                 r == addOrUpdateMessage(chatLog, userMessage)
             IN  /\ Len(streams) < MaxTurns
                 /\ chatLog' = r.log
                 /\ folded' = foldedAfterMerge(folded, chatLog, userMessage, r.threw)
                 /\ inputValue' = valueAfterSubmit(inputValue)
                 /\ inputDisabled' = TRUE
                 /\ buttonDisabled' = TRUE
                 /\ streams' = Append(streams, newStream(userMessage))
                 /\ lastEvent' = Event("submit", "accepted")
                 /\ UNCHANGED <<hPc, history, nChunks>>

\* SSE.close(): the transport marks the stream closed
sseClose(ss, s) == [ss EXCEPT ![s].readyState = "CLOSED"]

\* a transport that goes on delivering after the stream was closed
delivers_evenClosed(readyState) == readyState # "CONNECTING"

\* the transport dispatches message events of a stream only while it is open
delivers(readyState) == readyState = "OPEN"

\* the 'message' listener
onMessage(s, data) ==
    /\ s \in DOMAIN streams
    /\ delivers(streams[s].readyState)
    /\ nChunks < MaxChunks
    /\ nChunks' = nChunks + 1
    /\ IF data.kind = "message"
       THEN LET r == addOrUpdateMessage(chatLog, data.message)
            IN  /\ chatLog' = r.log
                /\ folded' = foldedAfterMerge(folded, chatLog, data.message, r.threw)
                /\ lastEvent' = Event("message", IF r.threw THEN "threw" ELSE "merged")
       ELSE /\ lastEvent' = Event("message", data.kind)
            /\ UNCHANGED <<chatLog, folded>>
    /\ UNCHANGED <<inputValue, inputDisabled, buttonDisabled, streams, hPc, history>>

\* the 'error' listener
onError(s) ==
    /\ s \in DOMAIN streams
    /\ streams[s].readyState # "CLOSED"
    /\ LET r == appendMessage(chatLog, connectionErrorMessage)
       IN  /\ chatLog' = r.log
           /\ folded' = foldedAfterAppend(folded, connectionErrorMessage, r.threw)
    /\ streams' = sseClose(streams, s)
    /\ inputDisabled' = FALSE
    /\ buttonDisabled' = FALSE
    /\ lastEvent' = Event("error", "")
    /\ UNCHANGED <<inputValue, hPc, history, nChunks>>

\* the listener re-enables on every change of readyState
isClosed_always(readyState) == TRUE

\* the listener re-enables as soon as the stream has opened
isClosed_orOpen(readyState) == readyState # "CONNECTING"

\* the listener never re-enables
isClosed_never(readyState) == FALSE

\* e.readyState === SSE.CLOSED
isClosed(readyState) == readyState = "CLOSED"

\* the 'readystatechange' listener; the transport moves the stream to
\* readyState, from CONNECTING to OPEN or from either to CLOSED
onReadyStateChange(s, readyState) ==
    /\ s \in DOMAIN streams
    /\ \/ streams[s].readyState = "CONNECTING" /\ readyState = "OPEN"
       \/ streams[s].readyState # "CLOSED" /\ readyState = "CLOSED"
    /\ streams' = [streams EXCEPT ![s].readyState = readyState]
    /\ IF isClosed(readyState)
       THEN inputDisabled' = FALSE /\ buttonDisabled' = FALSE
       ELSE UNCHANGED <<inputDisabled, buttonDisabled>>
    /\ lastEvent' = Event("readystatechange", readyState)
    /\ UNCHANGED <<chatLog, inputValue, hPc, history, nChunks, folded>>

\* -------------------------------------------------------------- loadHistory
\* `await fetch('/chat')` resumes: rejected, or a response that is ok or not
fetchResolve(outcome) ==
    /\ hPc = "fetch"
    /\ IF outcome = "ok"
       THEN /\ hPc' = "json"
            /\ UNCHANGED <<chatLog, folded>>
       ELSE LET m == historyErrorMessage
                r == appendMessage(chatLog, m)
            IN  /\ hPc' = "done"
                /\ chatLog' = r.log
                /\ folded' = foldedAfterAppend(folded, m, r.threw)
    /\ lastEvent' = Event("fetch", outcome)
    /\ UNCHANGED <<inputValue, inputDisabled, buttonDisabled, streams, history, nChunks>>

foldedOfHistory(body) ==
    IF body.kind # "array"
    THEN <<[parts |-> historyErrorMessage.parts,
            via |-> "error"]>>
    ELSE LET merged == mergedHistory(body.messages)
             r == forEachAppend(<<>>, merged)
         IN  [i \in 1..Len(r.log) |-> [parts |-> merged[i].parts, via |-> "history"]]
             \o (IF r.threw
                 THEN <<[parts |-> historyErrorMessage.parts,
                         via |-> "error"]>>
                 ELSE <<>>)

historyOutcome(body) ==
    IF body.kind = "array" /\ ~forEachAppend(<<>>, mergedHistory(body.messages)).threw
    THEN "rendered" ELSE "threw"

\* `await response.json()` resumes and the rest of loadHistory runs
jsonResolve(body) ==
    /\ hPc = "json"
    /\ hPc' = "done"
    /\ history' = historyAfterReduce(body)
    /\ IF body.kind = "invalid_json"
       THEN LET m == historyErrorMessage
                r == appendMessage(chatLog, m)
            IN  /\ chatLog' = r.log
                /\ folded' = foldedAfterAppend(folded, m, r.threw)
                /\ lastEvent' = Event("history", "invalid_json")
       ELSE /\ chatLog' = renderHistory(chatLog, body)
            /\ folded' = foldedOfHistory(body)
            /\ lastEvent' = Event("history", historyOutcome(body))
    /\ UNCHANGED <<inputValue, inputDisabled, buttonDisabled, streams, nChunks>>

\* -------------------------------------------------------------------- Next
\* the events of the page, the chunk events carrying data of `chunks`
NextOver(chunks) ==
    \/ \E v \in InputTexts : Type(v)
    \/ handleFormSubmit
    \/ \E s \in 1..MaxTurns, data \in chunks : onMessage(s, data)
    \/ \E s \in 1..MaxTurns : onError(s)
    \/ \E s \in 1..MaxTurns, rs \in {"OPEN", "CLOSED"} : onReadyStateChange(s, rs)
    \/ \E outcome \in {"ok", "Failed to fetch"} : fetchResolve(outcome)
    \/ \E body \in Histories \cup {[kind |-> "invalid_json", messages |-> <<>>]} :
          jsonResolve(body)

Next == NextOver(ChunkData)

Spec == Init /\ [][Next]_vars

\* the transport ends every stream it opened: by an error event or by
\* moving it to CLOSED
streamEnds == \E s \in 1..MaxTurns : onError(s) \/ onReadyStateChange(s, "CLOSED")

\* chunks of a turn: unparseable data, a Message, a Message whose
\* rendering throws
TurnChunks ==
    {data \in ChunkData :
        data.kind # "message" \/ data.message \in {ModelText, ModelNoArgs}}

NextTurn == NextOver(TurnChunks)

FairSpec == Init /\ [][NextTurn]_vars /\ WF_vars(streamEnds)

\* ------------------------------------------------ the two merges on their own
\* History Merge on every short history, then Live Update Merge on every
\* short feed of chunks, without the Turn Controller around them.
UserHi   == Message("user", <<TextPart(<<"hi">>)>>)
ModelHel == Message("model", <<TextPart(<<"Hel">>)>>)
ModelLo  == Message("model", <<TextPart(<<"lo!">>)>>)
ModelNote == Message("model", <<TextPart(<<>>), OtherPart(<<"n">>)>>)
ToolResponse == Message("tool", <<ResponsePart(<<"get", "<", "T", ">">>, <<"<", "1", ">">>)>>)

SeqsUpTo(S, n) == UNION {[1..k -> S] : k \in 0..n}

MergeHistories ==
    {[kind |-> "array", messages |-> h] :
        h \in SeqsUpTo({UserHi, ModelHel, ModelLo, ModelCall, ToolResponse}, MaxHist)}

MergeChunks == {ModelText, ModelCall, ModelNote, ToolResponse, UserText}

InitMerge ==
    /\ chatLog = <<>>
    /\ inputValue = <<>>
    /\ inputDisabled = FALSE
    /\ buttonDisabled = FALSE
    /\ streams = <<>>
    /\ hPc = "json"
    /\ history = NoBody
    /\ nChunks = 0
    /\ folded = <<>>
    /\ lastEvent = Event("fetch", "ok")

\* one call of addOrUpdateMessage
mergeLive(message) ==
    /\ hPc = "done"
    /\ nChunks < MaxFeed
    /\ nChunks' = nChunks + 1
    /\ LET r == addOrUpdateMessage(chatLog, message)
       IN  /\ chatLog' = r.log
           /\ folded' = foldedAfterMerge(folded, chatLog, message, r.threw)
           /\ lastEvent' = Event("message", IF r.threw THEN "threw" ELSE "merged")
    /\ UNCHANGED <<inputValue, inputDisabled, buttonDisabled, streams, hPc, history>>

NextMerge ==
    \/ \E body \in MergeHistories : jsonResolve(body)
    \/ \E m \in MergeChunks : mergeLive(m)

SpecMerge == InitMerge /\ [][NextMerge]_vars

\* ============================================================== properties
\* The vocabulary of the transcript entry: an element's rawText is its
\* dataset.rawText, its nonTextParts are the blocks displayed after the
\* markdown block.
textOf(p) == IF p.type = "text" /\ p.text # Undef THEN p.text ELSE <<>>

RECURSIVE ConcatText(_)
ConcatText(parts) ==
    IF parts = <<>> THEN <<>> ELSE textOf(Head(parts)) \o ConcatText(Tail(parts))

nonTextParts(entry) == SelectSeq(entry.html, LAMBDA b : b.kind # "md")

\* the display blocks of the non-text Parts among `parts`, in order
ShownNonText(parts) ==
    LET nt == SelectSeq(parts, LAMBDA p : p.type # "text")
    IN  [i \in 1..Len(nt) |-> renderPart(nt[i])]

\* the entry a single chunk carrying `parts` makes on an empty transcript
SingleChunkEntry(role, parts) == addOrUpdateMessage(<<>>, Message(role, parts)).log[1]

\* C1: merge equivalence. The last entry, built chunk by chunk (and from
\* the history Messages folded before them), has the rawText and the
\* nonTextParts of the entry that one chunk carrying all those Parts makes.
C1_MergeEquivalence ==
    chatLog # <<>> =>
        LET n == Len(chatLog)
            one == SingleChunkEntry(chatLog[n].role, folded[n].parts)
        IN  /\ chatLog[n].rawText = one.rawText
            /\ nonTextParts(chatLog[n]) = nonTextParts(one)

\* C2: every entry's nonTextParts is the sequence, in arrival order, of all
\* the non-text Parts folded into it: an extension drops, replaces or
\* reorders none of them.
C2_NonTextPartsKept ==
    \A i \in 1..Len(chatLog) :
        nonTextParts(chatLog[i]) = ShownNonText(folded[i].parts)

\* C3: raw text fidelity. Every entry's rawText is the concatenation, in
\* arrival order, of the text of the text Parts folded into it; non-text
\* Parts contribute nothing.
C3_RawTextFidelity ==
    \A i \in 1..Len(chatLog) :
        chatLog[i].rawText = ConcatText(folded[i].parts)

\* an entry extended by a chunk after non-text Parts (one carrying a text
\* field of its own) were folded into it
C3_Witness ==
    \E i \in 1..Len(chatLog) :
        /\ Len(chatLog[i].rawText) >= 2
        /\ \E j \in 1..Len(folded[i].parts) :
              folded[i].parts[j].type = "note" /\ Truthy(folded[i].parts[j].text)
        /\ lastEvent = Event("message", "merged")

\* The maximal runs of a history: a Message starts a run when it is the
\* first, when it is a user Message or when its role differs from the
\* role of the Message before it.
RunStarts(h) ==
    {i \in 1..Len(h) : i = 1 \/ h[i].role = "user" \/ h[i].role # h[i - 1].role}

RunEnd(h, s) ==
    CHOOSE e \in s..Len(h) :
        /\ \A j \in (s + 1)..e : j \notin RunStarts(h)
        /\ e = Len(h) \/ (e + 1) \in RunStarts(h)

RunParts(h, s) == join([j \in 1..(RunEnd(h, s) - s + 1) |-> h[s + j - 1].parts])

\* C4: role-adjacency rule of History Merge. The entries rendered from a
\* history are, in order, its maximal runs: one entry per run, with the
\* run's role and the run's Parts concatenated in order.
C4_RoleAdjacency ==
    (lastEvent = Event("history", "rendered")) =>
        LET h == history.messages
        IN  /\ Len(chatLog) = Cardinality(RunStarts(h))
            /\ \A s \in RunStarts(h) :
                  LET k == Cardinality({t \in RunStarts(h) : t <= s})
                  IN  /\ chatLog[k].role = h[s].role
                      /\ chatLog[k].rawText = ConcatText(RunParts(h, s))
                      /\ nonTextParts(chatLog[k]) = ShownNonText(RunParts(h, s))

\* the history user "hi", model "Hel", model "lo!" rendered as two entries
C4_Witness ==
    /\ lastEvent = Event("history", "rendered")
    /\ history.messages = <<UserHi, ModelHel, ModelLo>>
    /\ Len(chatLog) = 2
    /\ chatLog[1].role = "user" /\ chatLog[1].rawText = <<"hi">>
    /\ chatLog[2].role = "model" /\ chatLog[2].rawText = <<"Hel", "lo!">>

\* C5: no two adjacent entries have the same role unless that role is user.
C5_NoAdjacentSameRole ==
    \A i \in 1..(Len(chatLog) - 1) :
        chatLog[i].role = chatLog[i + 1].role => chatLog[i].role = "user"

\* C5, amended: two adjacent entries have the same role only when that
\* role is user, or when it is system and the later entry was appended by
\* an error path (the stream's error listener or the catch of loadHistory),
\* which append without merging.
C5_AdjacentSameRoleOnlyUserOrError ==
    \A i \in 1..(Len(chatLog) - 1) :
        chatLog[i].role = chatLog[i + 1].role =>
            \/ chatLog[i].role = "user"
            \/ chatLog[i].role = "system" /\ folded[i + 1].via = "error"

\* two adjacent system entries, and a non-user entry that a chunk extended
C5_Witness ==
    /\ \E i \in 1..(Len(chatLog) - 1) :
          chatLog[i].role = "system" /\ chatLog[i + 1].role = "system"
    /\ nChunks >= 1

StreamOpen(s) == s \in DOMAIN streams /\ streams[s].readyState # "CLOSED"

SomeStreamOpen == \E s \in DOMAIN streams : streams[s].readyState # "CLOSED"

\* C6: turn exclusivity. While the stream of an accepted submit is neither
\* closed nor errored, an invocation of submit appends no entry, opens no
\* stream and leaves the input-availability state as it was.
C6_TurnExclusivity ==
    [][(SomeStreamOpen /\ handleFormSubmit) =>
           UNCHANGED <<chatLog, streams, inputDisabled, buttonDisabled>>]_vars

\* submit was invoked while a stream was open
C6_Witness ==
    /\ lastEvent = Event("submit", "empty")
    /\ SomeStreamOpen
    /\ inputDisabled /\ buttonDisabled

\* C7: at most one stream is open, and submission is disabled whenever a
\* stream is open.
C7_OneStreamAndDisabled ==
    /\ Cardinality({s \in DOMAIN streams : streams[s].readyState # "CLOSED"}) <= 1
    /\ SomeStreamOpen => inputDisabled /\ buttonDisabled

\* the second turn's stream delivers a chunk after the first turn's closed
C7_Witness ==
    /\ Len(streams) = 2
    /\ streams[1].readyState = "CLOSED"
    /\ streams[2].readyState = "OPEN"
    /\ lastEvent = Event("message", "merged")
    /\ inputDisabled /\ buttonDisabled

\* C8: no stuck disabled input. The step that closes or fails a stream
\* leaves submission enabled, and, every opened stream ending, disabled
\* submission leads to enabled submission with no stream open.
C8_InputReenabled ==
    /\ [][(\E s \in DOMAIN streams :
               streams[s].readyState # "CLOSED" /\ streams'[s].readyState = "CLOSED")
           => (~inputDisabled' /\ ~buttonDisabled')]_vars
    /\ (inputDisabled \/ buttonDisabled)
           ~> (~inputDisabled /\ ~buttonDisabled /\ ~SomeStreamOpen)

\* a turn that received a valid chunk and then one whose rendering threw
\* (the entry's text block is behind its rawText) has ended normally and
\* the input is enabled again
C8_Witness ==
    /\ streams # <<>>
    /\ ~SomeStreamOpen
    /\ nChunks >= 2
    /\ \E i \in 1..Len(chatLog) :
          /\ chatLog[i].html # <<>>
          /\ chatLog[i].html[1].kind = "md"
          /\ chatLog[i].html[1].body # chatLog[i].rawText
    /\ lastEvent = Event("readystatechange", "CLOSED")
    /\ ~inputDisabled /\ ~buttonDisabled

\* the wire shape of a Part: a call carries args, a response carries response
WellFormedPart(p) ==
    /\ p.type = "function_call" => p.args # Undef
    /\ p.type = "function_response" => p.response # Undef

\* the data of a chunk event parses as a Message
ParsesAsMessage(data) ==
    /\ data.kind = "message"
    /\ \A i \in 1..Len(data.message.parts) : WellFormedPart(data.message.parts[i])

\* C9: a chunk whose data does not parse as a Message leaves the
\* transcript, the input-availability state and the stream unchanged.
C9_MalformedChunkIgnored ==
    [][(\E s \in 1..MaxTurns, data \in ChunkData :
            ~ParsesAsMessage(data) /\ onMessage(s, data))
        => UNCHANGED <<chatLog, inputDisabled, buttonDisabled, streams>>]_vars

\* C10: once a submit has been accepted, a step of the history load
\* neither clears the transcript nor appends to it.
C10_HistoryBeforeTurns ==
    [][(streams # <<>> /\ hPc' # hPc) => chatLog' = chatLog]_vars

\* the entry the catch of loadHistory appends
IsHistoryErrorEntry(entry) ==
    /\ entry.role = "system"
    /\ entry.rawText = getTextFromParts(historyErrorMessage.parts)
    /\ entry.html = <<marked_parse(entry.rawText)>>

\* C11: when the history fetch has failed (rejected, or a response that is
\* not ok), the transcript is exactly one system entry describing the
\* error, and submission is enabled.
C11_FetchFailureSingleEntry ==
    (lastEvent = Event("fetch", "Failed to fetch")) =>
        /\ Len(chatLog) = 1
        /\ IsHistoryErrorEntry(chatLog[1])
        /\ ~inputDisabled /\ ~buttonDisabled

\* the transcript after the message listener has taken `messages` one by
\* one, starting from `log` (the listener's catch swallows an exception)
RECURSIVE feedLive(_, _)
feedLive(log, messages) ==
    IF messages = <<>> THEN log
    ELSE feedLive(addOrUpdateMessage(log, Head(messages)).log, Tail(messages))

\* what the transcript vocabulary sees of an entry
EntryView(entry) ==
    [role |-> entry.role, rawText |-> entry.rawText,
     nonTextParts |-> nonTextParts(entry)]

TranscriptView(log) == [i \in 1..Len(log) |-> EntryView(log[i])]

\* C12: history/live equivalence. The entries rendered from a history have,
\* in order, the role, rawText and nonTextParts of the transcript that
\* Live Update Merge builds from the same Messages fed one by one into an
\* empty transcript.
C12_HistoryLiveEquivalence ==
    (lastEvent = Event("history", "rendered")) =>
        TranscriptView(chatLog) = TranscriptView(feedLive(<<>>, history.messages))

IsUser(m) == m.role = "user"

\* `chatLog.innerHTML = ''`: the step discards the elements of the log
\* (a discarded element keeps its own content) and builds new ones
DiscardsElements == hPc = "json" /\ history'.kind = "array"

\* C13: a user entry is never extended. Every user Message (submitted,
\* carried by a chunk, or listed by the history) makes an entry of its own,
\* seeded from that Message alone, and no step changes the rawText or the
\* nonTextParts of a user element.
C13_UserEntryNeverExtended ==
    /\ [][/\ (handleFormSubmit /\ trim(inputValue) # <<>>) =>
                /\ Len(chatLog') = Len(chatLog) + 1
                /\ EntryView(Last(chatLog')) =
                       EntryView(SingleChunkEntry("user", <<TextPart(trim(inputValue))>>))
          /\ \A s \in 1..MaxTurns, data \in ChunkData :
                (data.kind = "message" /\ IsUser(data.message) /\ onMessage(s, data)) =>
                    /\ Len(chatLog') = Len(chatLog) + 1
                    /\ EntryView(Last(chatLog')) =
                           EntryView(SingleChunkEntry("user", data.message.parts))
          /\ ~DiscardsElements =>
                \A i \in 1..Len(chatLog) :
                    IsUser(chatLog[i]) =>
                        /\ i <= Len(chatLog')
                        /\ EntryView(chatLog'[i]) = EntryView(chatLog[i])
         ]_vars
    /\ [](lastEvent = Event("history", "rendered") =>
            LET users == SelectSeq(history.messages, IsUser)
            IN  TranscriptView(SelectSeq(chatLog, IsUser)) =
                    [i \in 1..Len(users) |->
                        EntryView(SingleChunkEntry("user", users[i].parts))])

\* a user chunk arrived right after the submitted user Message and made an
\* entry of its own, and a model chunk then started the next entry
C13_Witness ==
    /\ Len(chatLog) >= 3
    /\ \E i \in 1..(Len(chatLog) - 2) :
          /\ chatLog[i].role = "user" /\ chatLog[i].rawText = <<"h", "i">>
          /\ chatLog[i + 1].role = "user" /\ chatLog[i + 1].rawText = <<"u">>
          /\ chatLog[i + 2].role = "model"
    /\ lastEvent = Event("message", "merged")

\* the entry the error listener appends
IsConnectionErrorEntry(entry) ==
    /\ entry.role = "system"
    /\ entry.rawText = <<"Connection error. Please try again.">>
    /\ entry.html = <<marked_parse(entry.rawText)>>

\* C14: the error listener of a stream appends exactly one entry, a system
\* entry with the fixed error text, after the entries there were, which it
\* leaves as they are; the stream is closed and submission is enabled.
C14_StreamFailure ==
    [][\A s \in 1..MaxTurns :
          onError(s) =>
              /\ Len(chatLog') = Len(chatLog) + 1
              /\ IsConnectionErrorEntry(Last(chatLog'))
              /\ SubSeq(chatLog', 1, Len(chatLog)) = chatLog
              /\ streams'[s].readyState = "CLOSED"
              /\ ~inputDisabled' /\ ~buttonDisabled'
      ]_vars

\* a turn failed after a chunk had extended the model's entry
C14_Witness ==
    /\ lastEvent = Event("error", "")
    /\ Len(chatLog) >= 3
    /\ IsConnectionErrorEntry(Last(chatLog))
    /\ chatLog[Len(chatLog) - 1].role = "model"
    /\ chatLog[Len(chatLog) - 1].rawText = <<"a", "a">>
    /\ ~SomeStreamOpen
    /\ ~inputDisabled /\ ~buttonDisabled

\* the stream objects that are not closed
OpenStreams == {s \in DOMAIN streams : streams[s].readyState # "CLOSED"}

\* empty, or white space only
IsBlank(v) == \A i \in 1..Len(v) : v[i] = " "

\* C15: a submit of empty or whitespace-only input changes nothing: not the
\* transcript, not the input or its availability, not the streams (none is
\* made, so no request is sent).
C15_EmptySubmitNoEffect ==
    [][(handleFormSubmit /\ IsBlank(inputValue)) =>
           /\ UNCHANGED <<chatLog, inputValue, inputDisabled, buttonDisabled, streams>>
           /\ OpenStreams' = OpenStreams
      ]_vars

\* whitespace was typed and submitted after the history had been rendered
C15_Witness ==
    /\ lastEvent = Event("submit", "empty")
    /\ inputValue = <<" ">>
    /\ chatLog # <<>>
    /\ streams = <<>>
    /\ ~inputDisabled /\ ~buttonDisabled

\* C16: History Merge does not mutate its input. When the history has been
\* merged and rendered, every Message of the list response.json() resolved
\* to has the role and the parts list it arrived with, a Message that later
\* Messages were folded onto included.
C16_HistoryNotMutated ==
    [][\A body \in MergeHistories :
          jsonResolve(body) => history'.messages = body.messages]_vars

\* two model Messages and a call were folded onto the copy of the first,
\* which still has its one Part in the caller's list
C16_Witness ==
    /\ lastEvent = Event("history", "rendered")
    /\ Len(history.messages) = 3
    /\ history.messages[1] = ModelHel
    /\ history.messages[2] = ModelLo
    /\ history.messages[3] = ModelCall
    /\ Len(chatLog) = 1
    /\ chatLog[1].rawText = <<"Hel", "lo!">>
    /\ Len(nonTextParts(chatLog[1])) = 1

\* C17: no chunk of a closed stream is applied. A message event of a stream
\* that the error listener or the transport has closed never changes the
\* transcript.
C17_NoChunkAfterClose ==
    [][\A s \in 1..MaxTurns, data \in ChunkData :
          (s \in DOMAIN streams /\ streams[s].readyState = "CLOSED") =>
              ~(onMessage(s, data) /\ chatLog' # chatLog)]_vars

\* the first turn's stream failed and was closed; the chunk applied since
\* then is one of the second turn's stream
C17_Witness ==
    /\ Len(streams) = 2
    /\ streams[1].readyState = "CLOSED"
    /\ streams[2].readyState = "OPEN"
    /\ \E i \in 1..(Len(chatLog) - 2) :
          /\ IsConnectionErrorEntry(chatLog[i])
          /\ chatLog[i + 1].role = "user"
          /\ chatLog[i + 2].role = "model"
    /\ lastEvent = Event("message", "merged")

\* no markup character: htmlEncode has turned & < > into entities (the &
\* of an entity is followed by its name)
MarkupFree(str) == \A i \in 1..Len(str) : str[i] \notin {"<", ">"}

\* C18: every string of a Part shown outside the markdown block, the name
\* in the header of a call or a response and the serialised payload, is
\* HTML-escaped: no < or > of a Part reaches the display.
C18_PartStringsEscaped ==
    \A i \in 1..Len(chatLog) :
        \A j \in 1..Len(chatLog[i].html) :
            chatLog[i].html[j].kind # "md" =>
                /\ MarkupFree(chatLog[i].html[j].summary)
                /\ MarkupFree(chatLog[i].html[j].body)

\* C19: append-vs-extend rule of Live Update Merge. A call with Message m
\* appends one entry seeded from m when the transcript is empty, the last
\* entry's role differs from m.role or m.role is user; otherwise the number
\* of entries stays and only the last entry may change. Either way the
\* entries before the last one are the entries that were there.
C19_AppendVsExtend ==
    [][\A m \in MergeChunks :
          mergeLive(m) =>
              IF chatLog = <<>> \/ Last(chatLog).role # m.role \/ m.role = "user"
              THEN /\ Len(chatLog') = Len(chatLog) + 1
                   /\ SubSeq(chatLog', 1, Len(chatLog)) = chatLog
                   /\ Last(chatLog').role = m.role
                   /\ Last(chatLog').rawText = ConcatText(m.parts)
                   /\ nonTextParts(Last(chatLog')) = ShownNonText(m.parts)
              ELSE /\ Len(chatLog') = Len(chatLog)
                   /\ \A i \in 1..(Len(chatLog) - 1) : chatLog'[i] = chatLog[i]
      ]_vars

\* on an empty history, a user chunk made the first entry, a model chunk
\* the second, and one more model chunk extended the second
C19_Witness ==
    /\ history.messages = <<>>
    /\ nChunks = 3
    /\ Len(chatLog) = 2
    /\ chatLog[1].role = "user" /\ chatLog[1].rawText = <<"u">>
    /\ chatLog[2].role = "model" /\ chatLog[2].rawText = <<"a", "a">>
    /\ lastEvent = Event("message", "merged")

\* the text block of an entry: one marked.parse of all of its rawText,
\* first in the display, and no other markdown block after it
TextBlockOf(entry) ==
    IF entry.rawText # <<>> THEN <<marked_parse(entry.rawText)>> ELSE <<>>

\* C20: wholesale re-render. The display of every entry is one markdown
\* block made from the entry's whole rawText (none when rawText is empty),
\* followed by the entry's non-text Parts, rendered in arrival order.
C20_WholesaleRerender ==
    \A i \in 1..Len(chatLog) :
        chatLog[i].html = TextBlockOf(chatLog[i]) \o ShownNonText(folded[i].parts)

RECURSIVE Spaces(_)
Spaces(n) == IF n = 0 THEN <<>> ELSE <<" ">> \o Spaces(n - 1)

\* t is v without its leading and trailing white space
IsTrimmed(v, t) ==
    /\ t # <<>> => Head(t) # " " /\ Last(t) # " "
    /\ \E a, b \in 0..Len(v) : v = Spaces(a) \o t \o Spaces(b)

\* the entry of the user Message that stream s was opened with
UserEntryOf(s, entry) ==
    /\ entry.role = "user"
    /\ entry.rawText = getTextFromParts(streams[s].payload.parts)

\* what an accepted submit does in its own step
SubmitAccepted ==
    (handleFormSubmit /\ ~IsBlank(inputValue)) =>
        /\ Len(chatLog') = Len(chatLog) + 1
        /\ SubSeq(chatLog', 1, Len(chatLog)) = chatLog
        /\ Last(chatLog').role = "user"
        /\ IsTrimmed(inputValue, Last(chatLog').rawText)
        /\ inputValue' = <<>>
        /\ Len(streams') = Len(streams) + 1
        /\ SubSeq(streams', 1, Len(streams)) = streams
        /\ Last(streams').payload =
               Message("user", <<TextPart(Last(chatLog').rawText)>>)

\* C21: an accepted submit appends exactly one user entry whose rawText is
\* the trimmed input, clears the input field and opens exactly one stream
\* whose payload is that user Message; and when a chunk of a stream is
\* applied, the user entry of that stream is in the transcript.
C21_SubmitThenChunks ==
    [][/\ SubmitAccepted
       /\ \A s \in 1..MaxTurns, data \in ChunkData :
             onMessage(s, data) =>
                 \E i \in 1..Len(chatLog) : UserEntryOf(s, chatLog[i])
      ]_vars

\* C22: between handlers, the input field and the send button are disabled
\* exactly when a stream opened by a submit has neither failed nor been
\* closed; and no step of the history load changes whether they are.
C22_DisabledIffStreamOpen ==
    /\ [](/\ inputDisabled <=> SomeStreamOpen
          /\ buttonDisabled <=> SomeStreamOpen)
    /\ [][(hPc' # hPc) => UNCHANGED <<inputDisabled, buttonDisabled>>]_vars

\* the history was rendered while a turn's stream was open: submission was
\* disabled before and is disabled after
C22_Witness ==
    /\ lastEvent = Event("history", "rendered")
    /\ OpenStreams = {1}
    /\ chatLog # <<>>
    /\ inputDisabled /\ buttonDisabled

====
